---- MODULE Spec2Model ----
(***************************************************************************)
(* The orchestrator of template/tools/orchestrator: the Flask handlers of  *)
(* main.py, the recovery of init.py and the merge worker of                *)
(* merge_coordinator.py, acting on the Redis store they share, driven by   *)
(* worker processes that follow the loop of agent_client.py.               *)
(*                                                                         *)
(* Grain of atomicity.  The server runs with threaded=True, so handlers    *)
(* interleave between Redis commands.  /task/claim and /agent/register are *)
(* modelled one step per group of Redis commands (the steps the claims     *)
(* about concurrency name); the other handlers, one sweeper pass and one   *)
(* recovery run are one step each; the merge worker is one step per stage  *)
(* of its pipeline.                                                        *)
(***************************************************************************)
EXTENDS Integers, Sequences, FiniteSets, TLC

VARIABLES
    tasks,            \* orchestrator:tasks          hash  task id -> record
    agents,           \* orchestrator:agents         hash  agent id -> record
    task_lock,        \* task_lock:<id>              keys  task id -> agent id
    current_phase,    \* orchestrator:current_phase  blob
    phases,           \* orchestrator:phases         list of phase statuses
    merge_queue,      \* orchestrator:merge_queue    list
    active_merges,    \* orchestrator:active_merges  hash (its keys)
    mw,               \* the merge worker thread: stage and request in hand
    client,           \* each worker process: its loop position
    req,              \* each worker process: locals of its request in flight
    sent,             \* the requests the worker processes have sent so far
    retry_failed,     \* CONFIG['advanced']['retry_failed_tasks']
    handed,           \* history: task handed out by a claim, not reset since
    notifications,    \* agent:<id>:notifications: the events published, in order
    startup,          \* initialize_orchestrator: the backlog given and the outcome
    auto_merge        \* CONFIG['git']['auto_merge']['enabled']: a merge coordinator runs

vars == <<tasks, agents, task_lock, current_phase, phases, merge_queue,
          active_merges, mw, client, req, sent, retry_failed, handed,
          notifications, startup, auto_merge>>

store == <<tasks, agents, task_lock, current_phase, phases, merge_queue,
           active_merges>>

----------------------------------------------------------------------------
(* Bounds and program constants *)

\* now - last_heartbeat against CONFIG['redis']['agent_timeout']
Ages == {"less", "equal", "greater"}
\* requests (register, claim, complete, heartbeat, unregister) the worker
\* processes send in a run, all together
MaxRequests == 5
Uncounted == MaxRequests + 1
\* main.py: max_attempts of claim_task
max_attempts == 10
\* merge_coordinator.py: retries of _handle_merge_failure
MaxRetries == 3
\* merge_coordinator.py: time.sleep(5 * (retry_count + 1))
BackoffUnit == 5
\* the dependency entries of a backlog given to the phase computation, all
\* its tasks together
MaxDeps == 4

SeqToSet(s) == {s[i] : i \in 1 .. Len(s)}

ProcSeq == <<"p1", "p2">>
Procs == SeqToSet(ProcSeq)
AgentIds == 1 .. Cardinality(Procs)
NoAgent == 0
NoTask == "none"

\* the backlog: ids in file order, dependencies and type of each task
Backlog == <<"A", "B">>
TaskIds == {Backlog[i] : i \in 1 .. Len(Backlog)}
Dependencies == [t \in TaskIds |-> IF t = "B" THEN <<"A">> ELSE <<>>]

\* a backlog of three phases, for the scans of /task/claim: X, Y, V, then
\* D, Z, W, then T, U
ScanIds == <<"X", "Y", "V", "D", "Z", "W", "T", "U">>
ScanDeps ==
    [t \in SeqToSet(ScanIds) |->
        CASE t = "D" -> <<"X">>
          [] t = "Z" -> <<"Y">>
          [] t = "W" -> <<"V">>
          [] t = "T" -> <<"D", "Z">>
          [] t = "U" -> <<"Z">>
          [] OTHER -> <<>>]

TaskType ==
    [t \in TaskIds \cup SeqToSet(ScanIds) |->
        IF t = "A" THEN "setup" ELSE "development"]

Terminal == {"merged", "failed", "blocked"}
Statuses == {"pending", "in_progress", "done", "conflict", "test_failed",
             "merged", "merge_failed", "failed", "blocked"}

----------------------------------------------------------------------------
(* Redis hash commands *)

HSet(h, k, v) == [x \in (DOMAIN h) \cup {k} |-> IF x = k THEN v ELSE h[x]]
HDel(h, k) == [x \in (DOMAIN h) \ {k} |-> h[x]]


----------------------------------------------------------------------------
(* init.py: phases by Kahn layering *)

RECURSIVE Flatten(_)
Flatten(ss) == IF ss = <<>> THEN <<>> ELSE Head(ss) \o Flatten(Tail(ss))

\* a graph that lists each dependent of d once, however often it names d
build_graph_once(ids, deps) ==
    [d \in SeqToSet(ids) |->
        SelectSeq(ids, LAMBDA t : d \in SeqToSet(deps[t]))]

\* DependencyGraph.build_graph: graph[d] lists the dependents of d, one entry
\* per occurrence of d in a dependency list, tasks in backlog order
build_graph(ids, deps) ==
    [d \in SeqToSet(ids) |->
        Flatten([i \in 1 .. Len(ids) |->
            [j \in 1 .. Len(SelectSeq(deps[ids[i]], LAMBDA x : x = d)) |->
                ids[i]]])]

\* in_degree[t]: the entries of t's dependency list that are backlog ids
in_degree(ids, deps) ==
    [t \in SeqToSet(ids) |->
        Len(SelectSeq(deps[t], LAMBDA x : x \in SeqToSet(ids)))]

\* the inner loops of topological_sort over the dependents ds of one phase
RECURSIVE NextPhase(_, _, _)
NextPhase(deg, ds, next_phase) ==
    IF ds = <<>> THEN [in_degree |-> deg, next_phase |-> next_phase]
    ELSE LET d == Head(ds)
             deg2 == [deg EXCEPT ![d] = @ - 1]
         IN NextPhase(deg2, Tail(ds),
                      IF deg2[d] = 0 THEN Append(next_phase, d)
                      ELSE next_phase)

RECURSIVE KahnLoop(_, _, _, _)
KahnLoop(graph, deg, current, acc) ==
    IF current = <<>> THEN [phases |-> acc, in_degree |-> deg]
    ELSE LET ds == Flatten([i \in 1 .. Len(current) |-> graph[current[i]]])
             n == NextPhase(deg, ds, <<>>)
         IN KahnLoop(graph, n.in_degree, n.next_phase, Append(acc, current))

topological_sort(ids, deps) ==
    KahnLoop(build_graph(ids, deps), in_degree(ids, deps),
             SelectSeq(ids, LAMBDA t : in_degree(ids, deps)[t] = 0), <<>>)

\* a check that looks only for tasks that list themselves
cycle_tasks_self(ids, deps) ==
    {t \in SeqToSet(ids) : t \in SeqToSet(deps[t])}

\* topological_sort, lines 405-407: the tasks left with a positive in-degree
cycle_tasks(ids, deps) ==
    {t \in SeqToSet(ids) : topological_sort(ids, deps).in_degree[t] > 0}

\* calculate_phases: the task ids of each phase, phase ids from 1
calculate_phases(ids, deps) == topological_sort(ids, deps).phases

PhaseTasks == calculate_phases(Backlog, Dependencies)
NumPhases == Len(PhaseTasks)

NoPhase == [id |-> 0, status |-> "none"]

----------------------------------------------------------------------------
(* Records *)

NewTask == [status |-> "pending", assigned_to |-> NoAgent,
            started_at |-> FALSE, blocked_reason |-> NoTask]

NoInfo == [session_id |-> "none", status |-> "idle", current_task |-> NoTask,
           current_role |-> "none", age |-> "less",
           tasks_completed |-> 0, tasks_failed |-> 0]

\* reason: why the last /task/claim returned no task
NoReq == [pc |-> "none", attempt |-> 0, agent_info |-> NoInfo,
          task |-> NoTask, task_rec |-> NewTask, agent_count |-> 0,
          reason |-> "none"]

\* the locals of a /task/claim that has returned task = null
no_task(reason) == [NoReq EXCEPT !.reason = reason]

\* a merge request, with its history: the times it was pushed and popped
\* and the seconds slept before each re-enqueue
NoMerge == [task_id |-> NoTask, agent_id |-> NoAgent, retry_count |-> 0,
            pushes |-> 0, pops |-> 0, slept |-> <<>>]

determine_role(task_type) ==
    CASE task_type = "setup" -> "setup-specialist"
      [] task_type = "development" -> "developer"
      [] task_type = "testing" -> "tester"
      [] task_type = "security" -> "security-auditor"
      [] task_type = "documentation" -> "technical-writer"
      [] task_type = "review" -> "code-reviewer"
      [] OTHER -> "developer"

\* initialize_orchestrator, lines 295-296, and main.py, lines 658-663: the
\* coordinator starts with the phases, or the error is raised and it exits
initialized(ids, deps) ==
    [ids |-> ids, deps |-> deps,
     state |-> IF cycle_tasks(ids, deps) = {} THEN "started" ELSE "refused",
     cycle_tasks |-> cycle_tasks(ids, deps),
     phases |-> calculate_phases(ids, deps)]

----------------------------------------------------------------------------
Init ==
    /\ tasks = [t \in TaskIds |-> NewTask]
    /\ agents = [a \in {} |-> NoInfo]
    /\ task_lock = [t \in {} |-> NoAgent]
    /\ current_phase = [id |-> 1, status |-> "active"]
    /\ phases = [k \in 1 .. NumPhases |-> "pending"]
    /\ merge_queue = <<>>
    /\ active_merges = {}
    /\ mw = [pc |-> "idle", req |-> NoMerge]
    /\ client = [p \in Procs |-> [state |-> "off", agent_id |-> NoAgent,
                                  held |-> NoTask]]
    /\ req = [p \in Procs |-> NoReq]
    /\ sent = 0
    /\ retry_failed \in BOOLEAN
    /\ handed = [t \in TaskIds |-> FALSE]
    /\ notifications = <<>>
    /\ startup = initialized(Backlog, Dependencies)
    /\ auto_merge = TRUE

----------------------------------------------------------------------------
(* main.py: /agent/register, in two steps: HLEN, then HSET *)

Idle(p) == req[p].pc = "none"

\* a worker process sends one more request; in the runs where the requests
\* are not counted (sent = Uncounted) the loop of task_loop goes on for ever
Send(p) ==
    IF sent = Uncounted THEN sent' = sent
    ELSE /\ sent < MaxRequests
         /\ sent' = sent + 1

register_count(p) ==
    /\ client[p].state = "off" /\ Idle(p)
    /\ Send(p)
    /\ req' = [req EXCEPT ![p] = [NoReq EXCEPT !.pc = "register",
                                  !.agent_count = Cardinality(DOMAIN agents)]]
    /\ UNCHANGED <<store, mw, client, retry_failed, handed, notifications, startup,
                   auto_merge>>

\* agent_id = f"ai-agent-{agent_count + 1}"
new_agent_id(agent_count) == agent_count + 1

register_store(p) ==
    /\ req[p].pc = "register"
    /\ LET agent_id == new_agent_id(req[p].agent_count)
       IN /\ agents' = HSet(agents, agent_id,
                            [session_id |-> p, status |-> "idle",
                             current_task |-> NoTask, current_role |-> "none",
                             age |-> "less",
                             tasks_completed |-> 0, tasks_failed |-> 0])
          /\ client' = [client EXCEPT ![p] = [state |-> "idle",
                                              agent_id |-> agent_id,
                                              held |-> NoTask]]
    /\ req' = [req EXCEPT ![p] = NoReq]
    /\ UNCHANGED <<tasks, task_lock, current_phase, phases, merge_queue,
                   active_merges, mw, sent, retry_failed, handed, notifications, startup,
                   auto_merge>>

----------------------------------------------------------------------------
(* main.py: helpers of /task/claim *)

\* a check that looks for a failed dependency in the whole list
RECURSIVE any_failed_dependency(_, _)
any_failed_dependency(tk, deps) ==
    IF deps = <<>> THEN [complete |-> TRUE, failed |-> NoTask]
    ELSE LET dep_id == Head(deps)
             rest == any_failed_dependency(tk, Tail(deps))
         IN IF dep_id \in DOMAIN tk /\ tk[dep_id].status = "merged"
            THEN rest
            ELSE IF dep_id \in DOMAIN tk /\ tk[dep_id].status = "failed"
            THEN [complete |-> FALSE, failed |-> dep_id]
            ELSE [complete |-> FALSE, failed |-> rest.failed]

RECURSIVE all_dependencies_complete(_, _)
all_dependencies_complete(tk, deps) ==
    IF deps = <<>> THEN [complete |-> TRUE, failed |-> NoTask]
    ELSE LET dep_id == Head(deps)
         IN IF dep_id \notin DOMAIN tk
            THEN [complete |-> FALSE, failed |-> NoTask]
            ELSE IF tk[dep_id].status = "merged"
            THEN all_dependencies_complete(tk, Tail(deps))
            ELSE IF tk[dep_id].status = "failed"
            THEN [complete |-> FALSE, failed |-> dep_id]
            ELSE [complete |-> FALSE, failed |-> NoTask]

\* the task returned (or NoTask) and the task hash after the scan, which
\* writes the tasks it finds blocked; each task record carries its
\* dependencies as the backlog gave them
RECURSIVE find_next_available_task(_, _)
find_next_available_task(ids, tk) ==
    IF ids = <<>> THEN [task |-> NoTask, tasks |-> tk]
    ELSE LET t == Head(ids)
         IN IF t \notin DOMAIN tk \/ tk[t].status # "pending"
            THEN find_next_available_task(Tail(ids), tk)
            ELSE LET r == all_dependencies_complete(tk, startup.deps[t])
                 IN IF r.complete THEN [task |-> t, tasks |-> tk]
                    ELSE IF r.failed # NoTask
                    THEN find_next_available_task(Tail(ids),
                             [tk EXCEPT ![t].status = "blocked",
                                        ![t].blocked_reason = r.failed])
                    ELSE find_next_available_task(Tail(ids), tk)

(* main.py: /task/claim *)

\* lines 226-245: one iteration of the loop, from the request locals r: the
\* phase is read and its tasks are scanned
claim_iteration(p, r) ==
    IF current_phase.id = 0
    THEN /\ req' = [req EXCEPT ![p] = no_task("no_active_phase")]
         /\ UNCHANGED tasks
    ELSE LET found == find_next_available_task(
                          startup.phases[current_phase.id], tasks)
         IN /\ tasks' = found.tasks
            /\ IF found.task = NoTask
               THEN req' = [req EXCEPT ![p] = no_task("no_tasks_available")]
               ELSE req' = [req EXCEPT ![p] =
                               [r EXCEPT !.pc = "lock", !.attempt = @ + 1,
                                         !.task = found.task,
                                         !.task_rec = tasks[found.task]]]

\* lines 213-245: the agent must be registered, its record is read once, and
\* the first iteration scans
claim_begin(p) ==
    /\ client[p].state = "idle" /\ Idle(p)
    /\ Send(p)
    /\ client[p].agent_id \in DOMAIN agents
    /\ claim_iteration(p, [NoReq EXCEPT
                              !.agent_info = agents[client[p].agent_id]])
    /\ UNCHANGED <<agents, task_lock, current_phase, phases, merge_queue,
                   active_merges, mw, client, retry_failed, handed, notifications, startup,
                   auto_merge>>

\* a later iteration, after a lock that was not acquired
claim_scan(p) ==
    /\ req[p].pc = "scan"
    /\ claim_iteration(p, req[p])
    /\ UNCHANGED <<agents, task_lock, current_phase, phases, merge_queue,
                   active_merges, mw, client, sent, retry_failed, handed, notifications, startup,
                   auto_merge>>

\* a loop that tries the lock once more than max_attempts times
claim_lock_once_more(p) ==
    /\ req[p].pc = "lock"
    /\ IF req[p].task \in DOMAIN task_lock
       THEN /\ req' = [req EXCEPT ![p] = IF req[p].attempt < max_attempts + 1
                                         THEN [@ EXCEPT !.pc = "scan"]
                                         ELSE no_task("claim_failed_max_attempts")]
            /\ UNCHANGED task_lock
       ELSE /\ task_lock' = HSet(task_lock, req[p].task, client[p].agent_id)
            /\ req' = [req EXCEPT ![p].pc = "write_task"]
    /\ UNCHANGED <<tasks, agents, current_phase, phases, merge_queue,
                   active_merges, mw, client, sent, retry_failed, handed, notifications, startup,
                   auto_merge>>

\* lines 247-258: SET task_lock:<id> agent_id NX EX ttl; if the key exists
\* the loop continues, and ends after max_attempts iterations (lines 286-290)
claim_lock(p) ==
    /\ req[p].pc = "lock"
    /\ IF req[p].task \in DOMAIN task_lock
       THEN /\ req' = [req EXCEPT ![p] = IF req[p].attempt < max_attempts
                                         THEN [@ EXCEPT !.pc = "scan"]
                                         ELSE no_task("claim_failed_max_attempts")]
            /\ UNCHANGED task_lock
       ELSE /\ task_lock' = HSet(task_lock, req[p].task, client[p].agent_id)
            /\ req' = [req EXCEPT ![p].pc = "write_task"]
    /\ UNCHANGED <<tasks, agents, current_phase, phases, merge_queue,
                   active_merges, mw, client, sent, retry_failed, handed, notifications, startup,
                   auto_merge>>

\* lines 260-264: the record read by the scan, written back as in_progress
claim_write_task(p) ==
    /\ req[p].pc = "write_task"
    /\ tasks' = HSet(tasks, req[p].task,
                     [req[p].task_rec EXCEPT !.status = "in_progress",
                                             !.assigned_to = client[p].agent_id,
                                             !.started_at = TRUE])
    /\ req' = [req EXCEPT ![p].pc = "write_agent"]
    /\ UNCHANGED <<agents, task_lock, current_phase, phases, merge_queue,
                   active_merges, mw, client, sent, retry_failed, handed, notifications, startup,
                   auto_merge>>

\* lines 266-278: the agent record read at the start, written back as working
claim_write_agent(p) ==
    /\ req[p].pc = "write_agent"
    /\ agents' = HSet(agents, client[p].agent_id,
                      [req[p].agent_info EXCEPT
                           !.status = "working",
                           !.current_task = req[p].task,
                           !.current_role = determine_role(TaskType[req[p].task])])
    /\ client' = [client EXCEPT ![p].state = "working",
                                ![p].held = req[p].task]
    /\ handed' = [handed EXCEPT ![req[p].task] = TRUE]
    /\ req' = [req EXCEPT ![p] = NoReq]
    /\ UNCHANGED <<tasks, task_lock, current_phase, phases, merge_queue,
                   active_merges, mw, sent, retry_failed, notifications, startup,
                   auto_merge>>

----------------------------------------------------------------------------
(* main.py: /task/complete *)

\* /task/complete taking a successful task for integrated
complete_status_merged(success) == IF success THEN "merged" ELSE "failed"

\* line 323
complete_status(success) == IF success THEN "done" ELSE "failed"

\* a handler that queues every successful task, with or without a PR
queues_merge_without_pr(merge_coordinator, success, pr_url, branch_name) ==
    merge_coordinator /\ success

\* line 352: the merge is queued if there is a merge coordinator (lines
\* 666-676: auto-merge is enabled) and success and pr_url and branch_name
queues_merge(merge_coordinator, success, pr_url, branch_name) ==
    merge_coordinator /\ success /\ pr_url /\ branch_name

\* a queue_merge that counts the request as already retried once
queue_merge_retried(q, task_id, agent_id) ==
    Append(q, [task_id |-> task_id, agent_id |-> agent_id, retry_count |-> 1,
               pushes |-> 1, pops |-> 0, slept |-> <<>>])

\* merge_coordinator.py queue_merge: RPUSH of a request with retry_count 0
queue_merge(q, task_id, agent_id) ==
    Append(q, [task_id |-> task_id, agent_id |-> agent_id, retry_count |-> 0,
               pushes |-> 1, pops |-> 0, slept |-> <<>>])

(* agent_client.py: execute_task *)

MaxChecks == 2

\* config['quality_gates']['checks'] with what the command of each check
\* comes to: it exits 0, exits non-zero, or runs over its timeout
CheckOutcomes == {"passed", "failed", "timeout"}
Checks == [required : BOOLEAN, outcome : CheckOutcomes]
CheckLists == UNION {[1 .. n -> Checks] : n \in 0 .. MaxChecks}

\* run_tests, lines 1342-1367: a check that is not required is skipped; the
\* CalledProcessError or TimeoutExpired of a required one is caught and
\* the loop goes on; the function returns True after the loop
RECURSIVE run_tests(_)
run_tests(checks) ==
    IF checks = <<>> THEN TRUE
    ELSE IF ~Head(checks).required THEN run_tests(Tail(checks))
    ELSE IF Head(checks).outcome = "passed" THEN run_tests(Tail(checks))
    ELSE run_tests(Tail(checks))

\* what one execution meets: push_to_remote off, or on with the remote
\* missing or present; use_branches; whether the implementation commit
\* arrives; quality_gates.run_tests and the checks; whether the push
\* succeeds and whether a PR is created
Executions ==
    [remote : {"off", "missing", "present"}, use_branches : BOOLEAN,
     implemented : BOOLEAN, run_tests : BOOLEAN, checks : CheckLists,
     pushed : BOOLEAN, pr : BOOLEAN]

\* execute_task, lines 164-315: (success, pr_url, branch_name)
execute_task(e) ==
    IF e.remote = "missing" THEN <<FALSE, FALSE, FALSE>>
    ELSE IF ~e.implemented THEN <<FALSE, FALSE, e.use_branches>>
    ELSE IF e.run_tests /\ ~run_tests(e.checks)
    THEN <<FALSE, FALSE, e.use_branches>>
    ELSE IF e.use_branches /\ e.remote = "present"
    THEN IF ~e.pushed THEN <<FALSE, FALSE, TRUE>>
         ELSE <<TRUE, e.pr, TRUE>>
    ELSE <<TRUE, FALSE, e.use_branches>>

\* what execute_task of agent_client.py can return: (success, pr_url, branch)
ExecuteResults ==
    {<<FALSE, FALSE, FALSE>>, <<FALSE, FALSE, TRUE>>, <<TRUE, FALSE, FALSE>>,
     <<TRUE, FALSE, TRUE>>, <<TRUE, TRUE, TRUE>>}

\* lines 317-354: what the handler writes for agent_id, task_id and the
\* result reported
task_completed(agent_id, task_id, res) ==
    /\ tasks' = [tasks EXCEPT ![task_id].status = complete_status(res[1])]
    /\ task_lock' = HDel(task_lock, task_id)
    /\ agents' = IF agent_id \in DOMAIN agents
                 THEN [agents EXCEPT
                          ![agent_id].status = "idle",
                          ![agent_id].current_task = NoTask,
                          ![agent_id].current_role = "none",
                          ![agent_id].tasks_completed =
                              IF res[1] THEN @ + 1 ELSE @,
                          ![agent_id].tasks_failed =
                              IF res[1] THEN @ ELSE @ + 1]
                 ELSE agents
    /\ merge_queue' = IF queues_merge(auto_merge, res[1], res[2], res[3])
                      THEN queue_merge(merge_queue, task_id, agent_id)
                      ELSE merge_queue

\* the /task/complete a worker sends for the task it holds, reporting res
complete_request(p, res) ==
    /\ client[p].state = "working" /\ Idle(p)
    /\ Send(p)
    /\ task_completed(client[p].agent_id, client[p].held, res)
    /\ client' = [client EXCEPT ![p].state = "idle", ![p].held = NoTask]
    /\ UNCHANGED <<current_phase, phases, active_merges, mw, req,
                   retry_failed, handed, notifications, startup,
                   auto_merge>>

complete_task(p) == \E res \in ExecuteResults : complete_request(p, res)

\* task_loop, lines 96-100: execute_task, then /task/complete with what it
\* returned
Executed == {execute_task(e) : e \in Executions}
complete_executed(p) == \E res \in Executed : complete_request(p, res)

\* a second /task/complete for a task the merge worker left in conflict,
\* sent by the worker that was notified of the conflict
complete_again(p, task_id, res) ==
    /\ client[p].state # "off" /\ Idle(p)
    /\ tasks[task_id].status = "conflict"
    /\ \E i \in 1 .. Len(notifications) :
          /\ notifications[i].event_type = "conflict_detected"
          /\ notifications[i].task_id = task_id
          /\ notifications[i].agent_id = client[p].agent_id
    /\ Send(p)
    /\ task_completed(client[p].agent_id, task_id, res)
    /\ UNCHANGED <<current_phase, phases, active_merges, mw, client, req,
                   retry_failed, handed, notifications, startup,
                   auto_merge>>

(* agent_client.py: the notification listener thread of a worker *)

\* resolve_conflict: the rebase is clean or the fix commit arrives, and the
\* branch is pushed; or wait_for_fix times out, or git raises
ConflictOutcomes == {"pushed", "unresolved"}

\* handle_notification, lines 1498-1591: data.get('branch') of a
\* tests_failed event, which _handle_test_failure publishes with a message
\* and action_required only, is None: after the fix nothing is pushed
TestsFailedOutcomes == {"fixed", "unresolved"}

\* what handle_notification and resolve_conflict send to the coordinator
\* once the event is handled: nothing
after_fix(q, tk, event) == q

\* the first event published to the agent of p that its listener has not
\* handled yet
next_event(p) ==
    CHOOSE i \in 1 .. Len(notifications) :
        /\ notifications[i].agent_id = client[p].agent_id
        /\ notifications[i].handled = "no"
        /\ \A j \in 1 .. i - 1 :
              notifications[j].agent_id = client[p].agent_id
                  => notifications[j].handled # "no"

handle_notification(p) ==
    /\ client[p].state # "off"
    /\ \E i \in 1 .. Len(notifications) :
          /\ notifications[i].agent_id = client[p].agent_id
          /\ notifications[i].handled = "no"
    /\ LET i == next_event(p)
           event_type == notifications[i].event_type
       IN \E outcome \in
               CASE event_type = "conflict_detected" -> ConflictOutcomes
                 [] event_type = "tests_failed" -> TestsFailedOutcomes
                 [] OTHER -> {"seen"} :
             LET event == [notifications[i] EXCEPT !.handled = outcome]
             IN /\ notifications' = [notifications EXCEPT ![i] = event]
                /\ merge_queue' = after_fix(merge_queue, tasks, event)
    /\ UNCHANGED <<tasks, agents, task_lock, current_phase, phases,
                   active_merges, mw, client, req, sent, retry_failed, handed,
                   startup, auto_merge>>

(* main.py: /agent/heartbeat, sent by task_loop between two tasks *)

\* a heartbeat that does not look for the agent before it writes
heartbeat_unchecked(ag, agent_id) ==
    HSet(ag, agent_id, [NoInfo EXCEPT !.age = "less"])

\* lines 376-382: last_heartbeat = now for a registered agent; 404, and
\* nothing written, for an unknown one
heartbeat_written(ag, agent_id) ==
    IF agent_id \in DOMAIN ag THEN [ag EXCEPT ![agent_id].age = "less"]
    ELSE ag

heartbeat(p) ==
    /\ client[p].state = "idle" /\ Idle(p)
    /\ Send(p)
    /\ agents' = heartbeat_written(agents, client[p].agent_id)
    /\ UNCHANGED <<tasks, task_lock, current_phase, phases, merge_queue,
                   active_merges, mw, client, req, retry_failed, handed,
                   notifications, startup, auto_merge>>

(* main.py: /agent/unregister, sent when the worker process is interrupted *)

\* lines 405-411: the task record after the reset
reset_by_unregister(task) ==
    [task EXCEPT !.status = "pending", !.assigned_to = NoAgent]

unregister_agent(p) ==
    /\ client[p].state \in {"idle", "working"} /\ Idle(p)
    /\ Send(p)
    /\ LET agent_id == client[p].agent_id
           held == IF agent_id \in DOMAIN agents
                   THEN agents[agent_id].current_task ELSE NoTask
       IN /\ task_lock' = IF held # NoTask THEN HDel(task_lock, held)
                          ELSE task_lock
          /\ tasks' = IF held # NoTask
                      THEN [tasks EXCEPT ![held] = reset_by_unregister(@)]
                      ELSE tasks
          /\ handed' = IF held # NoTask THEN [handed EXCEPT ![held] = FALSE]
                       ELSE handed
          /\ agents' = HDel(agents, agent_id)
    /\ client' = [client EXCEPT ![p] = [state |-> "off", agent_id |-> NoAgent,
                                        held |-> NoTask]]
    /\ UNCHANGED <<current_phase, phases, merge_queue, active_merges, mw, req,
                   retry_failed, notifications, startup, auto_merge>>

----------------------------------------------------------------------------
(* main.py: one pass of dead_agent_cleanup_service *)

\* line 611
is_dead(agent) == agent.age = "greater"

DeadAgents == {a \in DOMAIN agents : is_dead(agents[a])}

\* lines 618-635: the tasks a pass resets: the current task of a dead agent,
\* if the DEL of its lock key deleted a key
swept_tasks(dead, locks) ==
    {t \in TaskIds : /\ \E a \in dead : agents[a].current_task = t
                     /\ t \in DOMAIN locks}

\* the lock keys a pass deletes
swept_locks(dead) == {t \in TaskIds : \E a \in dead : agents[a].current_task = t}

dead_agent_cleanup_service ==
    /\ DeadAgents # {}
    /\ LET dead == DeadAgents
           reset == swept_tasks(dead, task_lock)
       IN /\ task_lock' = [t \in (DOMAIN task_lock) \ swept_locks(dead) |->
                              task_lock[t]]
          /\ tasks' = [t \in DOMAIN tasks |->
                          IF t \in reset
                          THEN [tasks[t] EXCEPT !.status = "pending",
                                                !.assigned_to = NoAgent]
                          ELSE tasks[t]]
          /\ handed' = [t \in TaskIds |-> IF t \in reset THEN FALSE
                                          ELSE handed[t]]
          /\ agents' = [a \in (DOMAIN agents) \ dead |-> agents[a]]
    /\ UNCHANGED <<current_phase, phases, merge_queue, active_merges, mw,
                   client, req, sent, retry_failed, notifications, startup,
                   auto_merge>>

----------------------------------------------------------------------------
(* init.py: recover_stuck_tasks, run by /cleanup *)

\* lines 172-181
active_agents == {a \in DOMAIN agents : agents[a].age = "less"}

\* line 192
is_stuck(task) ==
    /\ task.status = "in_progress"
    /\ task.assigned_to # NoAgent
    /\ task.assigned_to \notin active_agents

\* line 202
is_retried(task) == task.status = "failed" /\ retry_failed

\* a recovery that marks the stuck task failed, for the retry to reset
recovered_task_failed(task) ==
    IF is_stuck(task)
    THEN [task EXCEPT !.status = "failed", !.assigned_to = NoAgent]
    ELSE IF is_retried(task)
    THEN [task EXCEPT !.status = "pending", !.assigned_to = NoAgent]
    ELSE task

recovered_task(task) ==
    IF is_stuck(task)
    THEN [task EXCEPT !.status = "pending", !.assigned_to = NoAgent,
                      !.started_at = FALSE]
    ELSE IF is_retried(task)
    THEN [task EXCEPT !.status = "pending", !.assigned_to = NoAgent]
    ELSE task

\* recovered_count, as a run over the tasks tk would return it
recovered_count(tk) ==
    Cardinality({t \in DOMAIN tk : is_stuck(tk[t]) \/ is_retried(tk[t])})

recover_stuck_tasks ==
    /\ \E t \in DOMAIN tasks : recovered_task(tasks[t]) # tasks[t]
    /\ tasks' = [t \in DOMAIN tasks |-> recovered_task(tasks[t])]
    /\ handed' = [t \in TaskIds |->
                     IF recovered_task(tasks[t]) # tasks[t] THEN FALSE
                     ELSE handed[t]]
    /\ UNCHANGED <<agents, task_lock, current_phase, phases, merge_queue,
                   active_merges, mw, client, req, sent, retry_failed, notifications, startup,
                   auto_merge>>

----------------------------------------------------------------------------
(* Time: heartbeats grow older, lock keys expire after task_lock_ttl.  Both *)
(* agent_timeout and task_lock_ttl are taken to be longer than the time a   *)
(* handler needs for one request: no request is in flight when time passes. *)

Older(info) == [info EXCEPT !.age = IF @ = "less" THEN "equal" ELSE "greater"]

Tick ==
    /\ \A p \in Procs : Idle(p)
    /\ \E a \in DOMAIN agents : agents[a].age # "greater"
    /\ agents' = [a \in DOMAIN agents |-> Older(agents[a])]
    /\ UNCHANGED <<tasks, task_lock, current_phase, phases, merge_queue,
                   active_merges, mw, client, req, sent, retry_failed, handed, notifications, startup,
                   auto_merge>>

lock_expires(t) ==
    /\ \A p \in Procs : Idle(p)
    /\ t \in DOMAIN task_lock
    /\ task_lock' = HDel(task_lock, t)
    /\ UNCHANGED <<tasks, agents, current_phase, phases, merge_queue,
                   active_merges, mw, client, req, sent, retry_failed, handed, notifications, startup,
                   auto_merge>>

----------------------------------------------------------------------------
(* merge_coordinator.py: the merge worker thread *)

\* a worker that takes the newest request of the queue
merge_pop_newest ==
    /\ mw.pc = "idle"
    /\ merge_queue # <<>>
    /\ LET merge_request == [merge_queue[Len(merge_queue)] EXCEPT
                                !.pops = @ + 1]
       IN /\ mw' = [pc |-> "pipeline", req |-> merge_request]
          /\ active_merges' = active_merges \cup {merge_request.task_id}
    /\ merge_queue' = SubSeq(merge_queue, 1, Len(merge_queue) - 1)
    /\ UNCHANGED <<tasks, agents, task_lock, current_phase, phases, client,
                   req, sent, retry_failed, handed, notifications, startup,
                   auto_merge>>

\* _merge_worker, lines 75-87, and line 114 of _process_merge: BLPOP of the
\* oldest request, which is then marked active
merge_pop ==
    /\ mw.pc = "idle"
    /\ merge_queue # <<>>
    /\ LET merge_request == [Head(merge_queue) EXCEPT !.pops = @ + 1]
       IN /\ mw' = [pc |-> "pipeline", req |-> merge_request]
          /\ active_merges' = active_merges \cup {merge_request.task_id}
    /\ merge_queue' = Tail(merge_queue)
    /\ UNCHANGED <<tasks, agents, task_lock, current_phase, phases, client,
                   req, sent, retry_failed, handed, notifications, startup,
                   auto_merge>>

\* _process_merge without its finally clause: the entry stays
active_kept(active, task_id) == active

\* the finally clause of _process_merge, line 175: HDEL of the request
active_after(active, task_id) == active \ {task_id}

\* the pipeline ends: the finally clause runs and the worker loops to BLPOP
pipeline_ends ==
    /\ active_merges' = active_after(active_merges, mw.req.task_id)
    /\ mw' = [pc |-> "idle", req |-> NoMerge]

\* what steps 1-4 of _process_merge can come to: _update_main_branch raises,
\* a conflict, a failed gate, a failed integration, or the PR is merged
PipelineResults == {"error", "conflict", "test_failed", "merge_failed",
                    "integrated"}

\* _handle_conflict and _handle_test_failure: the status they write
handler_status(result) == IF result = "conflict" THEN "conflict"
                          ELSE "test_failed"

\* an exponential backoff: 5, 10, 20 seconds
backoff_doubling(retry_count) == BackoffUnit * 2 ^ retry_count

\* _handle_merge_failure, line 449: the seconds slept before the re-enqueue
backoff(retry_count) == BackoffUnit * (retry_count + 1)

\* _handle_merge_failure retrying once more: retry_count <= 3
retries_left_inclusive(retry_count) == retry_count <= MaxRetries

\* _handle_merge_failure, line 446
retries_left(retry_count) == retry_count < MaxRetries

\* _notify_agent: the event published to the agent of the request;
\* handled: what the listener of that agent has done with it
notify_agent(events, merge_request, event_type) ==
    Append(events, [agent_id |-> merge_request.agent_id,
                    task_id |-> merge_request.task_id,
                    event_type |-> event_type, handled |-> "no"])

\* the events _handle_conflict, _handle_test_failure and the last
\* _handle_merge_failure publish
handler_event(status) ==
    CASE status = "conflict" -> "conflict_detected"
      [] status = "test_failed" -> "tests_failed"
      [] status = "merge_failed" -> "merge_failed"

\* steps 1-4 of _process_merge with the handler of the failure found
merge_pipeline ==
    /\ mw.pc = "pipeline"
    /\ \E result \in PipelineResults :
         LET task_id == mw.req.task_id
         IN CASE result \in {"conflict", "test_failed"} ->
                   /\ tasks' = [tasks EXCEPT ![task_id].status =
                                                 handler_status(result)]
                   /\ notifications' =
                         notify_agent(notifications, mw.req,
                                      handler_event(handler_status(result)))
                   /\ pipeline_ends
              [] result \in {"error", "merge_failed"} ->
                   IF retries_left(mw.req.retry_count)
                   THEN /\ mw' = [mw EXCEPT
                                     !.pc = "backoff",
                                     !.req.retry_count = @ + 1,
                                     !.req.slept =
                                         Append(@, backoff(mw.req.retry_count))]
                        /\ UNCHANGED <<tasks, active_merges, notifications>>
                   ELSE /\ tasks' = [tasks EXCEPT ![task_id].status =
                                                      "merge_failed"]
                        /\ notifications' =
                              notify_agent(notifications, mw.req,
                                           handler_event("merge_failed"))
                        /\ pipeline_ends
              [] result = "integrated" ->
                   /\ mw' = [mw EXCEPT !.pc = "mark"]
                   /\ UNCHANGED <<tasks, active_merges, notifications>>
    /\ UNCHANGED <<agents, task_lock, current_phase, phases, merge_queue,
                   client, req, sent, retry_failed, handed, startup,
                   auto_merge>>

\* _handle_merge_failure, lines 448-453: after the sleep, RPUSH of the request
merge_requeue ==
    /\ mw.pc = "backoff"
    /\ merge_queue' = Append(merge_queue, [mw.req EXCEPT !.pushes = @ + 1])
    /\ pipeline_ends
    /\ UNCHANGED <<tasks, agents, task_lock, current_phase, phases,
                   client, req, sent, retry_failed, handed, notifications, startup,
                   auto_merge>>

\* _mark_task_merged finding no record of the task: nothing is written
mark_task_unwritten(tk, task_id) == tk

\* _mark_task_merged
mark_task_merged(tk, task_id) ==
    IF task_id \in DOMAIN tk THEN [tk EXCEPT ![task_id].status = "merged"]
    ELSE tk

\* a notification that raises after the task was marked merged, caught by
\* the except clause of _process_merge, which retries the request
merge_mark_raises ==
    /\ mw.pc = "mark"
    /\ tasks' = mark_task_merged(tasks, mw.req.task_id)
    /\ mw' = [mw EXCEPT !.pc = "backoff"]
    /\ UNCHANGED <<agents, task_lock, current_phase, phases, merge_queue,
                   active_merges, client, req, sent, retry_failed, handed,
                   notifications, startup, auto_merge>>

\* steps 5-6 of _process_merge and the merge_success notification
merge_mark ==
    /\ mw.pc = "mark"
    /\ tasks' = mark_task_merged(tasks, mw.req.task_id)
    /\ notifications' = notify_agent(notifications, mw.req, "merge_success")
    /\ mw' = [mw EXCEPT !.pc = "phase"]
    /\ UNCHANGED <<agents, task_lock, current_phase, phases, merge_queue,
                   active_merges, client, req, sent, retry_failed, handed,
                   startup, auto_merge>>

\* _check_phase_advancement, lines 512-526
all_complete(phase_id, tk) ==
    \A t \in SeqToSet(PhaseTasks[phase_id]) :
        t \in DOMAIN tk => tk[t].status \in Terminal

\* the last phase left as the current one, marked completed
phase_kept_completed == [id |-> NumPhases, status |-> "completed"]

\* line 558: after the last phase the key orchestrator:current_phase is deleted
phase_after_last == NoPhase

check_phase_advancement ==
    /\ mw.pc = "phase"
    /\ pipeline_ends
    /\ IF current_phase.id # 0 /\ all_complete(current_phase.id, tasks)
       THEN IF current_phase.id < Len(phases)
            THEN /\ phases' = [phases EXCEPT
                                  ![current_phase.id] = "completed",
                                  ![current_phase.id + 1] = "active"]
                 /\ current_phase' = [id |-> current_phase.id + 1,
                                      status |-> "active"]
            ELSE /\ current_phase' = phase_after_last
                 /\ UNCHANGED phases
       ELSE UNCHANGED <<current_phase, phases>>
    /\ UNCHANGED <<tasks, agents, task_lock, merge_queue,
                   client, req, sent, retry_failed, handed, notifications, startup,
                   auto_merge>>

----------------------------------------------------------------------------
Next ==
    \/ \E p \in Procs : register_count(p)
    \/ \E p \in Procs : register_store(p)
    \/ \E p \in Procs : claim_begin(p)
    \/ \E p \in Procs : claim_scan(p)
    \/ \E p \in Procs : claim_lock(p)
    \/ \E p \in Procs : claim_write_task(p)
    \/ \E p \in Procs : claim_write_agent(p)
    \/ \E p \in Procs : complete_task(p)
    \/ \E p \in Procs : heartbeat(p)
    \/ \E p \in Procs : unregister_agent(p)
    \/ dead_agent_cleanup_service
    \/ recover_stuck_tasks
    \/ Tick
    \/ \E t \in TaskIds : lock_expires(t)
    \/ merge_pop
    \/ merge_pipeline
    \/ merge_requeue
    \/ merge_mark
    \/ check_phase_advancement

Spec == Init /\ [][Next]_vars

----------------------------------------------------------------------------
(* The race between claims: two registered workers, their /task/claim and *)
(* /task/complete requests and the merge worker, with no time passing.    *)

InitRace ==
    /\ tasks = [t \in TaskIds |-> NewTask]
    /\ agents = [a \in AgentIds |->
                    [session_id |-> ProcSeq[a],
                     status |-> "idle", current_task |-> NoTask,
                     current_role |-> "none", age |-> "less",
                     tasks_completed |-> 0, tasks_failed |-> 0]]
    /\ task_lock = [t \in {} |-> NoAgent]
    /\ current_phase = [id |-> 1, status |-> "active"]
    /\ phases = [k \in 1 .. NumPhases |-> "pending"]
    /\ merge_queue = <<>>
    /\ active_merges = {}
    /\ mw = [pc |-> "idle", req |-> NoMerge]
    /\ client = [p \in Procs |->
                    [state |-> "idle",
                     agent_id |-> CHOOSE a \in AgentIds : agents[a].session_id = p,
                     held |-> NoTask]]
    /\ req = [p \in Procs |-> NoReq]
    /\ sent = 0
    /\ retry_failed = TRUE
    /\ handed = [t \in TaskIds |-> FALSE]
    /\ notifications = <<>>
    /\ startup = initialized(Backlog, Dependencies)
    /\ auto_merge = TRUE

NextRace ==
    \/ \E p \in Procs : claim_begin(p)
    \/ \E p \in Procs : claim_scan(p)
    \/ \E p \in Procs : claim_lock(p)
    \/ \E p \in Procs : claim_write_task(p)
    \/ \E p \in Procs : claim_write_agent(p)
    \/ \E p \in Procs : complete_task(p)
    \/ merge_pop
    \/ merge_pipeline
    \/ merge_requeue
    \/ merge_mark
    \/ check_phase_advancement

SpecRace == InitRace /\ [][NextRace]_vars

----------------------------------------------------------------------------
(* The run in which nothing fails: two registered workers whose loops go  *)
(* on for ever, every execution ending in success with a branch and a PR, *)
(* every merge pipeline integrating, and no time passing.                 *)

InitLive ==
    /\ tasks = [t \in TaskIds |-> NewTask]
    /\ agents = [a \in AgentIds |->
                    [session_id |-> ProcSeq[a], status |-> "idle",
                     current_task |-> NoTask, current_role |-> "none",
                     age |-> "less",
                     tasks_completed |-> 0, tasks_failed |-> 0]]
    /\ task_lock = [t \in {} |-> NoAgent]
    /\ current_phase = [id |-> 1, status |-> "active"]
    /\ phases = [k \in 1 .. NumPhases |-> "pending"]
    /\ merge_queue = <<>>
    /\ active_merges = {}
    /\ mw = [pc |-> "idle", req |-> NoMerge]
    /\ client = [p \in Procs |->
                    [state |-> "idle",
                     agent_id |-> CHOOSE a \in AgentIds : agents[a].session_id = p,
                     held |-> NoTask]]
    /\ req = [p \in Procs |-> NoReq]
    /\ sent = Uncounted
    /\ retry_failed = TRUE
    /\ handed = [t \in TaskIds |-> FALSE]
    /\ notifications = <<>>
    /\ startup = initialized(Backlog, Dependencies)
    /\ auto_merge = TRUE

\* /task/complete reporting success with a branch and a PR: a merge is queued
complete_success(p) == complete_task(p) /\ merge_queue' # merge_queue

\* a merge pipeline that integrates
merge_integrates == merge_pipeline /\ mw'.pc = "mark"

NextLive ==
    \/ \E p \in Procs : claim_begin(p)
    \/ \E p \in Procs : claim_scan(p)
    \/ \E p \in Procs : claim_lock(p)
    \/ \E p \in Procs : claim_write_task(p)
    \/ \E p \in Procs : claim_write_agent(p)
    \/ \E p \in Procs : complete_success(p)
    \/ merge_pop
    \/ merge_integrates
    \/ merge_mark
    \/ check_phase_advancement

\* task_loop never stops claiming and completing, a handler that has begun
\* runs to its end, and _merge_worker loops for ever
FairLive ==
    /\ \A p \in Procs : /\ WF_vars(claim_begin(p))
                         /\ WF_vars(claim_scan(p))
                         /\ WF_vars(claim_lock(p))
                         /\ WF_vars(claim_write_task(p))
                         /\ WF_vars(claim_write_agent(p))
                         /\ WF_vars(complete_success(p))
    /\ WF_vars(merge_pop)
    /\ WF_vars(merge_integrates)
    /\ WF_vars(merge_mark)
    /\ WF_vars(check_phase_advancement)

SpecLive == InitLive /\ [][NextLive]_vars /\ FairLive

----------------------------------------------------------------------------
(* The same run for a backlog in which B lists, after A, a dependency X   *)
(* that is no task of the backlog.                                        *)

UnknownDeps == [t \in TaskIds |-> IF t = "B" THEN <<"A", "X">> ELSE <<>>]

InitUnknown ==
    /\ tasks = [t \in TaskIds |-> NewTask]
    /\ agents = [a \in AgentIds |->
                    [session_id |-> ProcSeq[a], status |-> "idle",
                     current_task |-> NoTask, current_role |-> "none",
                     age |-> "less",
                     tasks_completed |-> 0, tasks_failed |-> 0]]
    /\ task_lock = [t \in {} |-> NoAgent]
    /\ startup = initialized(Backlog, UnknownDeps)
    /\ current_phase = [id |-> 1, status |-> "active"]
    /\ phases = [k \in 1 .. Len(startup.phases) |-> "pending"]
    /\ merge_queue = <<>>
    /\ active_merges = {}
    /\ mw = [pc |-> "idle", req |-> NoMerge]
    /\ client = [p \in Procs |->
                    [state |-> "idle",
                     agent_id |-> CHOOSE a \in AgentIds : agents[a].session_id = p,
                     held |-> NoTask]]
    /\ req = [p \in Procs |-> NoReq]
    /\ sent = Uncounted
    /\ retry_failed = TRUE
    /\ handed = [t \in TaskIds |-> FALSE]
    /\ notifications = <<>>
    /\ auto_merge = TRUE

SpecUnknown == InitUnknown /\ [][NextLive]_vars /\ FairLive

----------------------------------------------------------------------------
(* The same two workers when executions and merge pipelines may fail. *)

NextFail ==
    \/ \E p \in Procs : claim_begin(p)
    \/ \E p \in Procs : claim_scan(p)
    \/ \E p \in Procs : claim_lock(p)
    \/ \E p \in Procs : claim_write_task(p)
    \/ \E p \in Procs : claim_write_agent(p)
    \/ \E p \in Procs : complete_task(p)
    \/ merge_pop
    \/ merge_pipeline
    \/ merge_requeue
    \/ merge_mark
    \/ check_phase_advancement

FairFail ==
    /\ \A p \in Procs : /\ WF_vars(claim_begin(p))
                         /\ WF_vars(claim_scan(p))
                         /\ WF_vars(claim_lock(p))
                         /\ WF_vars(claim_write_task(p))
                         /\ WF_vars(claim_write_agent(p))
                         /\ WF_vars(complete_task(p))
    /\ WF_vars(merge_pop)
    /\ WF_vars(merge_pipeline)
    /\ WF_vars(merge_requeue)
    /\ WF_vars(merge_mark)
    /\ WF_vars(check_phase_advancement)

SpecFail == InitLive /\ [][NextFail]_vars /\ FairFail

----------------------------------------------------------------------------
(* The same two workers with their notification listeners: every          *)
(* execution ends in success with a branch and a PR, the pipeline finds a  *)
(* conflict, a failed gate or integrates, and each worker handles the      *)
(* events published to it.                                                 *)

\* a merge pipeline whose integration does not fail
merge_decides == merge_pipeline /\ mw'.pc # "backoff"

NextFix ==
    \/ \E p \in Procs : claim_begin(p)
    \/ \E p \in Procs : claim_scan(p)
    \/ \E p \in Procs : claim_lock(p)
    \/ \E p \in Procs : claim_write_task(p)
    \/ \E p \in Procs : claim_write_agent(p)
    \/ \E p \in Procs : complete_success(p)
    \/ \E p \in Procs : handle_notification(p)
    \/ merge_pop
    \/ merge_decides
    \/ merge_mark
    \/ check_phase_advancement

SpecFix ==
    /\ InitLive /\ [][NextFix]_vars
    /\ \A p \in Procs : /\ WF_vars(claim_begin(p))
                         /\ WF_vars(claim_scan(p))
                         /\ WF_vars(claim_lock(p))
                         /\ WF_vars(claim_write_task(p))
                         /\ WF_vars(claim_write_agent(p))
                         /\ WF_vars(complete_success(p))
                         /\ WF_vars(handle_notification(p))
    /\ WF_vars(merge_pop)
    /\ WF_vars(merge_decides)
    /\ WF_vars(merge_mark)
    /\ WF_vars(check_phase_advancement)

----------------------------------------------------------------------------
(* The two registered workers, with the second /task/complete that follows *)
(* a conflict.                                                             *)

NextConflict ==
    \/ \E p \in Procs : claim_begin(p)
    \/ \E p \in Procs : claim_scan(p)
    \/ \E p \in Procs : claim_lock(p)
    \/ \E p \in Procs : claim_write_task(p)
    \/ \E p \in Procs : claim_write_agent(p)
    \/ \E p \in Procs : complete_task(p)
    \/ \E p \in Procs, t \in TaskIds, res \in ExecuteResults :
           complete_again(p, t, res)
    \/ merge_pop
    \/ merge_pipeline
    \/ merge_requeue
    \/ merge_mark
    \/ check_phase_advancement

SpecConflict == InitRace /\ [][NextConflict]_vars

----------------------------------------------------------------------------
(* The two registered workers, each reporting what its execute_task       *)
(* returned.                                                               *)

NextGate ==
    \/ \E p \in Procs : claim_begin(p)
    \/ \E p \in Procs : claim_scan(p)
    \/ \E p \in Procs : claim_lock(p)
    \/ \E p \in Procs : claim_write_task(p)
    \/ \E p \in Procs : claim_write_agent(p)
    \/ \E p \in Procs : complete_executed(p)
    \/ merge_pop
    \/ merge_pipeline
    \/ merge_requeue
    \/ merge_mark
    \/ check_phase_advancement

SpecGate == InitRace /\ [][NextGate]_vars

----------------------------------------------------------------------------
(* Heartbeats and the sweeper, with the two registered workers. *)

NextBeat ==
    \/ \E p \in Procs : claim_begin(p)
    \/ \E p \in Procs : claim_scan(p)
    \/ \E p \in Procs : claim_lock(p)
    \/ \E p \in Procs : claim_write_task(p)
    \/ \E p \in Procs : claim_write_agent(p)
    \/ \E p \in Procs : complete_task(p)
    \/ \E p \in Procs : heartbeat(p)
    \/ dead_agent_cleanup_service
    \/ Tick

SpecBeat == InitRace /\ [][NextBeat]_vars

----------------------------------------------------------------------------
(* Heartbeats while time passes.  task_loop sends a heartbeat at the top   *)
(* of an iteration when heartbeat_interval (30 s) has elapsed: a worker    *)
(* between two tasks, which comes back there every 3 s, has a heartbeat    *)
(* younger than agent_timeout (300 s) at any time; a worker inside         *)
(* execute_task, which waits up to 3600 s for the implementation commit,   *)
(* sends none.                                                             *)

\* the worker process whose agent id is a is in its loop between two tasks
between_tasks(a) ==
    \E p \in Procs : client[p].agent_id = a /\ client[p].state = "idle"

time_passes ==
    /\ \A p \in Procs : Idle(p)
    /\ agents' = [a \in DOMAIN agents |->
                     IF between_tasks(a) THEN [agents[a] EXCEPT !.age = "less"]
                     ELSE Older(agents[a])]
    /\ agents' # agents
    /\ UNCHANGED <<tasks, task_lock, current_phase, phases, merge_queue,
                   active_merges, mw, client, req, sent, retry_failed, handed,
                   notifications, startup, auto_merge>>

NextAlive ==
    \/ \E p \in Procs : claim_begin(p)
    \/ \E p \in Procs : claim_scan(p)
    \/ \E p \in Procs : claim_lock(p)
    \/ \E p \in Procs : claim_write_task(p)
    \/ \E p \in Procs : claim_write_agent(p)
    \/ \E p \in Procs : complete_task(p)
    \/ \E p \in Procs : heartbeat(p)
    \/ dead_agent_cleanup_service
    \/ time_passes

SpecAlive == InitRace /\ [][NextAlive]_vars

----------------------------------------------------------------------------
(* The claims of two registered workers while the third phase of the      *)
(* backlog ScanIds is current.  The merges of V and W have completed the   *)
(* first and the second phase.  D and Z are in any status: merged, failed  *)
(* or blocked when their phase completed, and since then possibly reset by *)
(* a recovery run or the sweeper, or written again by a claim that had     *)
(* read them before and by the completion and merge that follow it.  A     *)
(* blocked task has a failed dependency.                                   *)

ScanTask(status) == [NewTask EXCEPT !.status = status]

InitScan ==
    /\ \E d, z \in Statuses :
          tasks = [t \in SeqToSet(ScanIds) |->
                      CASE t = "X" -> ScanTask(IF d = "blocked" THEN "failed"
                                               ELSE "merged")
                        [] t = "Y" -> ScanTask(IF z = "blocked" THEN "failed"
                                               ELSE "merged")
                        [] t = "D" -> ScanTask(d)
                        [] t = "Z" -> ScanTask(z)
                        [] t \in {"V", "W"} -> ScanTask("merged")
                        [] OTHER -> NewTask]
    /\ agents = [a \in AgentIds |->
                    [session_id |-> ProcSeq[a], status |-> "idle",
                     current_task |-> NoTask, current_role |-> "none",
                     age |-> "less",
                     tasks_completed |-> 0, tasks_failed |-> 0]]
    /\ task_lock = [t \in {} |-> NoAgent]
    /\ current_phase = [id |-> 3, status |-> "active"]
    /\ phases = <<"completed", "completed", "active">>
    /\ merge_queue = <<>>
    /\ active_merges = {}
    /\ mw = [pc |-> "idle", req |-> NoMerge]
    /\ client = [p \in Procs |->
                    [state |-> "idle",
                     agent_id |-> CHOOSE a \in AgentIds : agents[a].session_id = p,
                     held |-> NoTask]]
    /\ req = [p \in Procs |-> NoReq]
    /\ sent = Uncounted
    /\ retry_failed = TRUE
    /\ handed = [t \in SeqToSet(ScanIds) |-> FALSE]
    /\ notifications = <<>>
    /\ startup = initialized(ScanIds, ScanDeps)
    /\ auto_merge = TRUE

NextScan ==
    \/ \E p \in Procs : claim_begin(p)
    \/ \E p \in Procs : claim_scan(p)
    \/ \E p \in Procs : claim_lock(p)
    \/ \E p \in Procs : claim_write_task(p)
    \/ \E p \in Procs : claim_write_agent(p)

SpecScan == InitScan /\ [][NextScan]_vars

\* the handler of a request runs to its return: each of its steps is taken
\* once it can be
SpecScanFair ==
    /\ SpecScan
    /\ \A p \in Procs : /\ WF_vars(claim_scan(p))
                         /\ WF_vars(claim_lock(p))
                         /\ WF_vars(claim_write_task(p))
                         /\ WF_vars(claim_write_agent(p))

----------------------------------------------------------------------------
(* The coordinator restarted on the state it left in Redis, at a moment   *)
(* when no request is in flight and the merge worker waits for a request. *)

\* initialize_orchestrator, lines 264-309, finding tasks in Redis: recovery
\* runs, the phases are computed again and stored, each pending, and the
\* first one is set as the current phase
restart ==
    /\ \A p \in Procs : Idle(p)
    /\ mw.pc = "idle"
    /\ tasks' = [t \in DOMAIN tasks |-> recovered_task(tasks[t])]
    /\ handed' = [t \in TaskIds |->
                     IF recovered_task(tasks[t]) # tasks[t] THEN FALSE
                     ELSE handed[t]]
    /\ phases' = [k \in 1 .. NumPhases |-> "pending"]
    /\ current_phase' = [id |-> 1, status |-> "active"]
    /\ UNCHANGED <<agents, task_lock, merge_queue, active_merges, mw, client,
                   req, sent, retry_failed, notifications, startup,
                   auto_merge>>

NextRestart ==
    \/ \E p \in Procs : claim_begin(p)
    \/ \E p \in Procs : claim_scan(p)
    \/ \E p \in Procs : claim_lock(p)
    \/ \E p \in Procs : claim_write_task(p)
    \/ \E p \in Procs : claim_write_agent(p)
    \/ \E p \in Procs : complete_task(p)
    \/ merge_pop
    \/ merge_pipeline
    \/ merge_requeue
    \/ merge_mark
    \/ check_phase_advancement
    \/ restart

SpecRestart == InitRace /\ [][NextRestart]_vars

\* the run in which nothing fails, with restarts of the coordinator
NextReboot ==
    \/ \E p \in Procs : claim_begin(p)
    \/ \E p \in Procs : claim_scan(p)
    \/ \E p \in Procs : claim_lock(p)
    \/ \E p \in Procs : claim_write_task(p)
    \/ \E p \in Procs : claim_write_agent(p)
    \/ \E p \in Procs : complete_success(p)
    \/ merge_pop
    \/ merge_integrates
    \/ merge_mark
    \/ check_phase_advancement
    \/ restart

SpecReboot == InitLive /\ [][NextReboot]_vars /\ FairLive

----------------------------------------------------------------------------
(* /task/complete under either configuration of auto-merge: the two       *)
(* registered workers, the sweeper and, when there is one, the merge      *)
(* worker.                                                                *)

InitComplete ==
    /\ tasks = [t \in TaskIds |-> NewTask]
    /\ agents = [a \in AgentIds |->
                    [session_id |-> ProcSeq[a], status |-> "idle",
                     current_task |-> NoTask, current_role |-> "none",
                     age |-> "less",
                     tasks_completed |-> 0, tasks_failed |-> 0]]
    /\ task_lock = [t \in {} |-> NoAgent]
    /\ current_phase = [id |-> 1, status |-> "active"]
    /\ phases = [k \in 1 .. NumPhases |-> "pending"]
    /\ merge_queue = <<>>
    /\ active_merges = {}
    /\ mw = [pc |-> "idle", req |-> NoMerge]
    /\ client = [p \in Procs |->
                    [state |-> "idle",
                     agent_id |-> CHOOSE a \in AgentIds : agents[a].session_id = p,
                     held |-> NoTask]]
    /\ req = [p \in Procs |-> NoReq]
    /\ sent = 0
    /\ retry_failed = TRUE
    /\ handed = [t \in TaskIds |-> FALSE]
    /\ notifications = <<>>
    /\ startup = initialized(Backlog, Dependencies)
    /\ auto_merge \in BOOLEAN

NextComplete ==
    \/ \E p \in Procs : claim_begin(p)
    \/ \E p \in Procs : claim_scan(p)
    \/ \E p \in Procs : claim_lock(p)
    \/ \E p \in Procs : claim_write_task(p)
    \/ \E p \in Procs : claim_write_agent(p)
    \/ \E p \in Procs : complete_task(p)
    \/ dead_agent_cleanup_service
    \/ Tick
    \/ merge_pop
    \/ merge_pipeline
    \/ merge_requeue
    \/ merge_mark
    \/ check_phase_advancement

SpecComplete == InitComplete /\ [][NextComplete]_vars

----------------------------------------------------------------------------
(* recover_stuck_tasks applied to any tasks and workers. *)

TaskRecords ==
    [status : Statuses, assigned_to : {NoAgent} \cup AgentIds,
     started_at : BOOLEAN, blocked_reason : {NoTask}]

AgentRecords ==
    [session_id : {"none"}, status : {"idle"}, current_task : {NoTask},
     current_role : {"none"}, age : Ages,
     tasks_completed : {0}, tasks_failed : {0}]

InitRecover ==
    /\ tasks \in [TaskIds -> TaskRecords]
    /\ \E registered \in SUBSET AgentIds : agents \in [registered -> AgentRecords]
    /\ task_lock = [t \in {} |-> NoAgent]
    /\ current_phase = [id |-> 1, status |-> "active"]
    /\ phases = [k \in 1 .. NumPhases |-> "pending"]
    /\ merge_queue = <<>>
    /\ active_merges = {}
    /\ mw = [pc |-> "idle", req |-> NoMerge]
    /\ client = [p \in Procs |-> [state |-> "off", agent_id |-> NoAgent,
                                  held |-> NoTask]]
    /\ req = [p \in Procs |-> NoReq]
    /\ sent = 0
    /\ retry_failed \in BOOLEAN
    /\ handed = [t \in TaskIds |-> TRUE]
    /\ notifications = <<>>
    /\ startup = initialized(Backlog, Dependencies)
    /\ auto_merge = TRUE

NextRecover == recover_stuck_tasks

SpecRecover == InitRecover /\ [][NextRecover]_vars

----------------------------------------------------------------------------
(* The start of the coordinator on any backlog of one to three tasks,   *)
(* whose dependency lists name tasks of the backlog, themselves          *)
(* included, or an id that is not in it.                                 *)

StartupIds == <<"A", "B", "C">>

\* the dependency lists of n entries
DepLists(n) == [1 .. n -> SeqToSet(StartupIds) \cup {"X"}]

\* Redis holds no task, no phases list and no current phase: a fresh start
InitStartup ==
    /\ tasks = [t \in {} |-> NewTask]
    /\ agents = [a \in {} |-> NoInfo]
    /\ task_lock = [t \in {} |-> NoAgent]
    /\ current_phase = NoPhase
    /\ phases = <<>>
    /\ merge_queue = <<>>
    /\ active_merges = {}
    /\ mw = [pc |-> "idle", req |-> NoMerge]
    /\ client = [p \in Procs |-> [state |-> "off", agent_id |-> NoAgent,
                                  held |-> NoTask]]
    /\ req = [p \in Procs |-> NoReq]
    /\ sent = 0
    /\ retry_failed = TRUE
    /\ handed = [t \in TaskIds |-> FALSE]
    /\ notifications = <<>>
    /\ auto_merge = TRUE
    /\ \E n \in 1 .. Len(StartupIds), la, lb, lc \in 0 .. MaxDeps :
          /\ la + lb + lc <= MaxDeps
          /\ n < 2 => lb = 0
          /\ n < 3 => lc = 0
          /\ \E da \in DepLists(la), db \in DepLists(lb), dc \in DepLists(lc) :
                startup = [ids |-> SubSeq(StartupIds, 1, n),
                           deps |-> [t \in SeqToSet(SubSeq(StartupIds, 1, n)) |->
                                        CASE t = "A" -> da
                                          [] t = "B" -> db
                                          [] t = "C" -> dc],
                           state |-> "loading", cycle_tasks |-> {},
                           phases |-> <<>>]

\* initialize_orchestrator on the backlog given, finding no task in Redis:
\* lines 282-293, every task is stored as pending; lines 295-296,
\* calculate_phases, which raises on a cycle; lines 299-309, the phases are
\* stored and the first one is set as the current phase
initialize_orchestrator ==
    /\ startup.state = "loading"
    /\ startup' = initialized(startup.ids, startup.deps)
    /\ tasks' = [t \in SeqToSet(startup.ids) |-> NewTask]
    /\ IF startup'.state = "started"
       THEN /\ phases' = [k \in 1 .. Len(startup'.phases) |-> "pending"]
            /\ current_phase' = [id |-> 1, status |-> "active"]
       ELSE UNCHANGED <<phases, current_phase>>
    /\ UNCHANGED <<agents, task_lock, merge_queue, active_merges, mw, client,
                   req, sent, retry_failed, handed, notifications,
                   auto_merge>>

NextStartup == initialize_orchestrator

SpecStartup == InitStartup /\ [][NextStartup]_vars

----------------------------------------------------------------------------
TypeOK ==
    /\ DOMAIN tasks = TaskIds
    /\ \A t \in TaskIds : tasks[t].status \in Statuses
    /\ DOMAIN agents \subseteq AgentIds
    /\ \A a \in DOMAIN agents : agents[a].age \in Ages
    /\ DOMAIN task_lock \subseteq TaskIds
    /\ sent \in 0 .. Uncounted

----------------------------------------------------------------------------
(* Properties *)

\* C1: in every reachable state no task id is the current_task of two
\* different registered workers.
ExclusiveAssignment ==
    \A a, b \in DOMAIN agents :
        (a # b /\ agents[a].current_task # NoTask)
            => agents[a].current_task # agents[b].current_task

\* a claim returns its task to the worker process p in this step
claim_returns(p) == req[p].pc = "write_agent" /\ req'[p].pc = "none"

\* C2: once a claim has returned task T, no other claim returns T unless T
\* was reset to pending by unregister, the sweeper or recovery in between.
AtMostOnceAssignment ==
    [][\A p \in Procs : claim_returns(p) => ~handed[req[p].task]]_vars

\* a claim of the worker process p writes its task as in_progress in this step
claim_writes(p) == req[p].pc = "write_task" /\ req'[p].pc = "write_agent"

\* C3: whenever a claim writes a task as in_progress, every dependency of
\* that task has status merged at that moment.
DependencyRespect ==
    [][\A p \in Procs :
          claim_writes(p) =>
              \A d \in SeqToSet(Dependencies[req[p].task]) :
                  d \in DOMAIN tasks /\ tasks[d].status = "merged"]_vars

\* C4: once a task's status is merged, failed or blocked, no step changes
\* it, except the reset of a recovery run.
TerminalMonotonicity ==
    [][\A t \in TaskIds :
          (tasks[t].status \in Terminal /\ tasks'[t].status # tasks[t].status)
              => recover_stuck_tasks]_vars

\* C5: at most one merge pipeline is in progress: the active-merges map
\* holds the request in the worker's hand while its pipeline runs (backoff
\* and re-enqueue included) and nothing else, and is empty when the worker
\* goes to pop the next request.
MergeSerialisation ==
    /\ Cardinality(active_merges) <= 1
    /\ mw.pc = "idle" => active_merges = {}
    /\ mw.pc # "idle" => active_merges = {mw.req.task_id}

\* C5, its case: a request that went through backoff and re-enqueue is
\* popped again and its next pipeline runs.
MergeSerialisationWitness ==
    /\ mw.pc = "pipeline"
    /\ mw.req.pops = 2
    /\ active_merges = {mw.req.task_id}

\* C6: a sweeper pass removes every worker whose heartbeat is older than
\* agent_timeout and leaves the task it holds pending and unassigned,
\* whether or not the lock key of the task still exists.
SweeperReclaims ==
    [][dead_agent_cleanup_service =>
          \A a \in DeadAgents :
              /\ a \notin DOMAIN agents'
              /\ agents[a].current_task # NoTask =>
                    /\ tasks'[agents[a].current_task].status = "pending"
                    /\ tasks'[agents[a].current_task].assigned_to = NoAgent]_vars

\* phase k completed: recorded so, with every task of it terminal
phase_done(k) ==
    /\ phases[k] = "completed"
    /\ \A t \in SeqToSet(PhaseTasks[k]) : tasks[t].status \in Terminal

\* C7: if phase k is the current phase then every phase before it is
\* recorded as completed and every task of those phases is merged, failed
\* or blocked.
PhaseMonotonicity ==
    \A k \in 1 .. NumPhases :
        current_phase.id = k => \A j \in 1 .. k - 1 : phase_done(j)

\* the merge requests there are: the one in the worker's hand and the queued
merge_requests ==
    SeqToSet(merge_queue) \cup (IF mw.pc = "idle" THEN {} ELSE {mw.req})

\* C8: a merge request is popped at most 4 times, with retry_count 0..3.
RetryBound ==
    \A m \in merge_requests : m.pops <= 4 /\ m.retry_count \in 0 .. 3

\* C8, its case: a request is in its fourth pipeline.
RetryBoundWitness == mw.pc = "pipeline" /\ mw.req.pops = 4

\* C9: a task's status becomes merged only in the merge worker's
\* terminal-update step, for the task of the request whose integration
\* succeeded.
MergedOnlyByWorker ==
    [][\A t \in TaskIds :
          (tasks[t].status # "merged" /\ tasks'[t].status = "merged")
              => /\ mw.pc = "mark"
                 /\ mw.req.task_id = t
                 /\ mw'.pc = "phase"]_vars

\* C9, its case: a task is merged.
MergedOnlyByWorkerWitness == \E t \in TaskIds : tasks[t].status = "merged"

\* C10: each task with status in_progress has a non-null assigned_to that
\* names a worker present in the registry.
InProgressAssigned ==
    \A t \in TaskIds :
        tasks[t].status = "in_progress"
            => /\ tasks[t].assigned_to # NoAgent
               /\ tasks[t].assigned_to \in DOMAIN agents

\* every task is merged and the current-phase slot is cleared
all_merged ==
    /\ \A t \in TaskIds : tasks[t].status = "merged"
    /\ current_phase = NoPhase

\* the current phase stays, or the next one becomes current, or the last
\* one ends and the slot is cleared
phase_step ==
    \/ current_phase' = current_phase
    \/ /\ current_phase.id \in 1 .. NumPhases - 1
       /\ current_phase'.id = current_phase.id + 1
    \/ /\ current_phase.id = NumPhases
       /\ current_phase' = NoPhase

dependents(t) == {d \in TaskIds : t \in SeqToSet(Dependencies[d])}
phase_of(t) == CHOOSE k \in 1 .. NumPhases : t \in SeqToSet(PhaseTasks[k])

\* the failure of t has been dealt with: its dependents are blocked with a
\* reason naming t and the coordinator has advanced past the phase of t
failure_settled(t) ==
    /\ \A d \in dependents(t) : /\ tasks[d].status = "blocked"
                                 /\ tasks[d].blocked_reason = t
    /\ current_phase.id # phase_of(t)

\* C12: when a worker reports success=false for a task, the task is
\* failed, and from then on, as claim attempts continue, every dependent
\* becomes blocked with a reason naming it and the phase containing it
\* eventually completes.
FailureSettles ==
    \A t \in TaskIds : (tasks[t].status = "failed") ~> failure_settled(t)

\* C13: a second /task/complete with success, a PR and a branch for a task
\* in conflict enqueues a new merge request for it, and the pipeline that
\* integrates a request leaves its task merged.
ConflictRetry ==
    [][/\ (\A p \in Procs, t \in TaskIds :
              complete_again(p, t, <<TRUE, TRUE, TRUE>>)
                  => /\ Len(merge_queue') = Len(merge_queue) + 1
                     /\ merge_queue'[Len(merge_queue')].task_id = t
                     /\ merge_queue'[Len(merge_queue')].retry_count = 0)
        /\ (merge_mark => tasks'[mw.req.task_id].status = "merged")]_vars

\* C13, its case: a task that was in conflict is merged.
ConflictRetryWitness ==
    \E i \in 1 .. Len(notifications) :
        /\ notifications[i].event_type = "conflict_detected"
        /\ tasks[notifications[i].task_id].status = "merged"

\* the merge worker's pipeline fails in this step: with retries left, or
\* for the last time
fails_with_retry == merge_pipeline /\ mw'.pc = "backoff"
fails_for_good ==
    /\ merge_pipeline
    /\ tasks'[mw.req.task_id].status = "merge_failed"
    /\ mw'.pc = "idle"

\* the last event published in this step, if one is
published(event_type) ==
    /\ Len(notifications') = Len(notifications) + 1
    /\ notifications'[Len(notifications')].event_type = event_type

register_stores(p) == req[p].pc = "register" /\ req'[p].pc = "none"

\* C15: a registration never returns an id that belongs to a worker still
\* in the registry, so the ids of the registered workers stay distinct.
UniqueWorkerIds ==
    [][\A p \in Procs :
          register_stores(p)
              => new_agent_id(req[p].agent_count) \notin DOMAIN agents]_vars

\* the worker process p holds a task it has just claimed: nothing has
\* touched the task, its lock or the worker since
just_claimed(p) ==
    /\ client[p].state = "working"
    /\ client[p].agent_id \in DOMAIN agents
    /\ agents[client[p].agent_id].current_task = client[p].held
    /\ tasks[client[p].held].status = "in_progress"
    /\ tasks[client[p].held].assigned_to = client[p].agent_id
    /\ client[p].held \in DOMAIN task_lock

\* C16: when a worker unregisters right after its claim of T, T is back
\* to pending, unassigned and without started_at, the lock of T is gone,
\* the worker is removed and nothing else has changed.
ClaimUnregisterRoundTrip ==
    [][\A p \in Procs :
          (just_claimed(p) /\ unregister_agent(p))
              => /\ tasks' = [tasks EXCEPT ![client[p].held] =
                                 [@ EXCEPT !.status = "pending",
                                           !.assigned_to = NoAgent,
                                           !.started_at = FALSE]]
                 /\ client[p].held \notin DOMAIN task_lock'
                 /\ agents' = HDel(agents, client[p].agent_id)
                 /\ UNCHANGED <<current_phase, phases, merge_queue>>]_vars

\* C17: a heartbeat of a registered worker changes only its last_heartbeat,
\* a second one leaves the state the first one left, and a heartbeat of an
\* unknown worker changes nothing.
HeartbeatFrame ==
    [][\A p \in Procs :
          heartbeat(p)
              => /\ agents' = IF client[p].agent_id \in DOMAIN agents
                              THEN [agents EXCEPT
                                       ![client[p].agent_id].age = "less"]
                              ELSE agents
                 /\ heartbeat_written(agents', client[p].agent_id) = agents'
                 /\ UNCHANGED <<tasks, task_lock, current_phase, phases,
                                merge_queue, active_merges, notifications>>]_vars

\* C17, its case: a worker has sent a heartbeat since time last passed,
\* another has not.
HeartbeatFrameWitness ==
    \E a, b \in DOMAIN agents :
        agents[a].age = "less" /\ agents[b].age = "greater"

\* C18: a second recovery run right after a first one changes no task
\* record and reports zero recovered tasks.
RecoveryIdempotent ==
    [][recover_stuck_tasks
          => /\ \A t \in TaskIds : recovered_task(tasks'[t]) = tasks'[t]
             /\ recovered_count(tasks') = 0]_vars

\* C18, its case: a recovery run has reset a task.
RecoveryIdempotentWitness ==
    \E t \in TaskIds : ~handed[t] /\ tasks[t].status = "pending"

\* the coordinator completes the last phase in this step
last_phase_completes ==
    /\ check_phase_advancement
    /\ current_phase.id = NumPhases
    /\ all_complete(NumPhases, tasks)

\* C19: when the last phase has completed the current-phase slot is
\* empty, it stays empty, and a claim then returns no task with reason
\* no_active_phase and changes no task, lock or worker record.
NoActivePhase ==
    [][/\ (last_phase_completes => current_phase' = NoPhase)
        /\ (current_phase = NoPhase => current_phase' = NoPhase)
        /\ (\A p \in Procs :
              (claim_begin(p) /\ current_phase = NoPhase)
                  => /\ req'[p] = no_task("no_active_phase")
                     /\ UNCHANGED <<tasks, task_lock, agents>>)]_vars

\* C19, its case: a claim has returned no_active_phase.
NoActivePhaseWitness ==
    \E p \in Procs : req[p].reason = "no_active_phase"

\* the tasks of the backlog that t depends on, and those it reaches by
\* following dependencies for up to n more steps
depends_on(ids, deps, t) == SeqToSet(deps[t]) \cap SeqToSet(ids)

RECURSIVE reached(_, _, _, _)
reached(ids, deps, from, n) ==
    IF n = 0 THEN from
    ELSE reached(ids, deps,
                 from \cup UNION {depends_on(ids, deps, x) : x \in from},
                 n - 1)

\* t is on a dependency cycle
on_cycle(ids, deps, t) ==
    t \in reached(ids, deps, depends_on(ids, deps, t), Len(ids))

\* C20: if the dependency graph has a cycle (a task depending on itself
\* included) the phase computation raises an error that lists every task
\* on a cycle and the coordinator does not start; if it has none, no error
\* is raised.
CycleRefused ==
    startup.state # "loading"
        => LET cyclic == {t \in SeqToSet(startup.ids) :
                            on_cycle(startup.ids, startup.deps, t)}
           IN /\ (cyclic # {}) <=> (startup.state = "refused")
              /\ cyclic \subseteq startup.cycle_tasks
              /\ (cyclic = {}) => (startup.cycle_tasks = {})

\* C20, its case: a backlog with a cycle of two tasks or more is refused.
CycleRefusedWitness ==
    /\ startup.state = "refused"
    /\ \E t \in startup.cycle_tasks : t \notin SeqToSet(startup.deps[t])

\* the phases that hold t, and the phase number of t when there is one
phases_of(ph, t) == {k \in 1 .. Len(ph) : t \in SeqToSet(ph[k])}
phase_number(ph, t) == CHOOSE k \in phases_of(ph, t) : TRUE

\* the largest of a non-empty set of numbers
Largest(S) == CHOOSE x \in S : \A y \in S : y <= x

\* C21: for an acyclic backlog the computed phases partition the tasks
\* (each task in exactly one phase, once, and no phase empty), every known
\* dependency of a task lies in a strictly earlier phase, the phase number
\* of a task is 1 without known dependencies and otherwise 1 + the largest
\* phase number of its dependencies, also when a dependency is listed
\* twice, and a single task without dependencies yields exactly one phase.
PhasesLayered ==
    LET ids == startup.ids
        deps == startup.deps
        ph == startup.phases
        acyclic == \A t \in SeqToSet(ids) : ~on_cycle(ids, deps, t)
    IN (startup.state # "loading" /\ acyclic) =>
          /\ startup.state = "started"
          /\ \A k \in 1 .. Len(ph) :
                /\ ph[k] # <<>>
                /\ \A i, j \in 1 .. Len(ph[k]) : ph[k][i] = ph[k][j] => i = j
          /\ \A t \in SeqToSet(ids) :
                /\ Cardinality(phases_of(ph, t)) = 1
                /\ \A d \in depends_on(ids, deps, t) :
                      phase_number(ph, d) < phase_number(ph, t)
                /\ phase_number(ph, t) =
                      IF depends_on(ids, deps, t) = {} THEN 1
                      ELSE 1 + Largest({phase_number(ph, d) :
                                          d \in depends_on(ids, deps, t)})
          /\ \A k \in 1 .. Len(ph) : SeqToSet(ph[k]) \subseteq SeqToSet(ids)
          /\ (Len(ids) = 1 => Len(ph) = 1 /\ ph[1] = ids)

\* C21, its case: a backlog of three phases is layered, one of its tasks
\* listing a dependency twice.
PhasesLayeredWitness ==
    /\ startup.state = "started"
    /\ Len(startup.phases) = 3
    /\ \E t \in SeqToSet(startup.ids) :
          /\ Len(startup.deps[t]) = 2
          /\ startup.deps[t][1] = startup.deps[t][2]
          /\ startup.deps[t][1] \in SeqToSet(startup.ids)

\* what /task/complete of the worker process p reporting res leaves: the
\* status, no lock, the worker idle with one counter more, and a request
\* with retry_count 0 appended exactly if queues
complete_effect(p, res, queues) ==
    LET task_id == client[p].held
        agent_id == client[p].agent_id
    IN /\ tasks'[task_id].status = (IF res[1] THEN "done" ELSE "failed")
       /\ task_id \notin DOMAIN task_lock'
       /\ agent_id \in DOMAIN agents =>
             /\ agent_id \in DOMAIN agents'
             /\ agents'[agent_id].status = "idle"
             /\ agents'[agent_id].current_task = NoTask
             /\ agents'[agent_id].tasks_completed
                    >= agents[agent_id].tasks_completed
             /\ agents'[agent_id].tasks_failed >= agents[agent_id].tasks_failed
             /\ agents'[agent_id].tasks_completed + agents'[agent_id].tasks_failed
                    = agents[agent_id].tasks_completed
                      + agents[agent_id].tasks_failed + 1
       /\ merge_queue' =
             IF queues
             THEN Append(merge_queue,
                         [task_id |-> task_id, agent_id |-> agent_id,
                          retry_count |-> 0, pushes |-> 1, pops |-> 0,
                          slept |-> <<>>])
             ELSE merge_queue

request_step(p) ==
    \/ claim_begin(p) \/ claim_scan(p) \/ claim_lock(p)
    \/ claim_write_task(p) \/ claim_write_agent(p)
    \/ complete_task(p) \/ unregister_agent(p)

\* this step is one of the merge worker's
merge_worker_step ==
    merge_pop \/ merge_pipeline \/ merge_requeue \/ merge_mark
        \/ check_phase_advancement

\* C23: a step that changes the status of a task is the merge worker's, or
\* belongs to a request of the worker that holds the lock of the task when
\* it writes; and a claim writes back the task record as it is in the store,
\* never one that another writer has updated since the claim read it.
LockedWrites ==
    [][/\ \A t \in TaskIds :
              tasks'[t].status # tasks[t].status
                  => \/ merge_worker_step
                     \/ \E p \in Procs :
                           /\ request_step(p)
                           /\ t \in DOMAIN task_lock
                           /\ task_lock[t] = client[p].agent_id
        /\ \A p \in Procs :
              claim_writes(p) => tasks[req[p].task] = req[p].task_rec]_vars

\* the place of a phase status in pending -> active -> completed
status_rank(status) ==
    CASE status = "pending" -> 0
      [] status = "active" -> 1
      [] status = "completed" -> 2

\* C24: the stored status of a phase never moves backwards in
\* pending -> active -> completed, also when the coordinator restarts and
\* computes the phases again while a later phase was active.
PhaseStatusMonotone ==
    [][\A k \in 1 .. NumPhases :
          status_rank(phases'[k]) >= status_rank(phases[k])]_vars

\* every task of phase k is merged, failed or blocked
phase_terminal(k) ==
    \A t \in SeqToSet(PhaseTasks[k]) : tasks[t].status \in Terminal

\* C25: when the phase controller runs with every task of the current
\* phase merged, failed or blocked, the phase is stored as completed in the
\* phases list, the last phase included; the next phase, if there is one,
\* is stored as active and installed as current, and otherwise the
\* current-phase slot is cleared.  With a task of the phase not terminal,
\* phases and current phase are unchanged.
PhaseControllerCompletes ==
    [][(check_phase_advancement /\ current_phase.id # 0) =>
          LET k == current_phase.id
          IN IF phase_terminal(k)
             THEN /\ phases'[k] = "completed"
                  /\ k < NumPhases =>
                        /\ phases'[k + 1] = "active"
                        /\ current_phase' = [id |-> k + 1, status |-> "active"]
                  /\ k = NumPhases => current_phase' = NoPhase
             ELSE UNCHANGED <<phases, current_phase>>]_vars

\* the tasks of the current phase in scan order, the dependencies of t that
\* are not merged, in list order, and the first of them
scan_order == startup.phases[current_phase.id]
unmerged(t) ==
    SelectSeq(startup.deps[t],
              LAMBDA d : d \notin DOMAIN tasks \/ tasks[d].status # "merged")
first_unmerged(t) == IF unmerged(t) = <<>> THEN NoTask ELSE Head(unmerged(t))

\* t is pending with every dependency merged
eligible(t) == tasks[t].status = "pending" /\ unmerged(t) = <<>>

\* a scan reaches the i-th task of the phase: it returns none before it
met(i) == \A j \in 1 .. i - 1 : ~eligible(scan_order[j])

\* the worker process p scans the current phase in this step
scans(p) == (claim_begin(p) \/ claim_scan(p)) /\ current_phase.id # 0

\* C26: a claim scan that meets a pending task whose first dependency not
\* merged is blocked writes the task as blocked, as it does for a failed
\* dependency, so that blocking reaches every dependent.
BlockedPropagates ==
    [][\A p \in Procs :
          scans(p) =>
              \A i \in 1 .. Len(scan_order) :
                  LET t == scan_order[i]
                  IN (/\ met(i)
                      /\ tasks[t].status = "pending"
                      /\ first_unmerged(t) \in DOMAIN tasks
                      /\ tasks[first_unmerged(t)].status = "blocked")
                         => tasks'[t].status = "blocked"]_vars

later_task_free(agent_id) ==
    \E i, j \in 1 .. Len(scan_order) :
        /\ i < j
        /\ met(i) /\ eligible(scan_order[i])
        /\ scan_order[i] \in DOMAIN task_lock
        /\ task_lock[scan_order[i]] # agent_id
        /\ eligible(scan_order[j])
        /\ scan_order[j] \notin DOMAIN task_lock

\* a claim of the worker process p returns without a task in this step
returns_no_task(p) ==
    /\ claim_begin(p) \/ claim_scan(p) \/ claim_lock(p)
    /\ req'[p].pc = "none"
    /\ req'[p].reason # "none"

\* C28: a claim does not return without a task while the first eligible
\* task of the current phase is locked by another worker and a later task
\* of the phase is eligible and not locked: it goes past the locked task.
LockedTaskSkipped ==
    [][\A p \in Procs :
          (current_phase.id # 0 /\ returns_no_task(p))
              => ~later_task_free(client[p].agent_id)]_vars

----------------------------------------------------------------------------
(* /task/claim returns *)

claim_reasons ==
    {"no_active_phase", "no_tasks_available", "claim_failed_max_attempts"}

\* the step with which the claim of p returns a task and its role
returns_task(p) ==
    /\ claim_write_agent(p)
    /\ client'[p].held = req[p].task
    /\ req[p].task # NoTask
    /\ agents'[client[p].agent_id].current_role =
           determine_role(TaskType[req[p].task])

\* the claim of p holds the lock it took until it returns the task
holds_lock(p) ==
    req[p].pc \in {"write_task", "write_agent"}

----------------------------------------------------------------------------
(* _process_merge: the outcomes of one invocation *)

\* the merge worker takes a step of the pipeline of the request it popped
pipeline_step == mw.pc # "idle" /\ mw' # mw

\* the events published in this step
published_events == SubSeq(notifications', Len(notifications) + 1,
                           Len(notifications'))

\* this step writes the status of the task of the request, and nothing else
writes_status(status) ==
    tasks' = [tasks EXCEPT ![mw.req.task_id].status = status]

\* this step publishes one event, of the given type, to the agent of the
\* request
publishes(event_type) ==
    published_events = <<[agent_id |-> mw.req.agent_id, task_id |-> mw.req.task_id,
                   event_type |-> event_type, handled |-> "no"]>>

\* a handler ends the invocation
handler_outcome(status, event_type) ==
    /\ mw.pc = "pipeline" /\ mw'.pc = "idle"
    /\ writes_status(status) /\ publishes(event_type)
    /\ UNCHANGED merge_queue

\* the request goes back to the queue and the invocation ends
requeue_outcome ==
    /\ mw.pc = "backoff" /\ mw'.pc = "idle"
    /\ Len(merge_queue') = Len(merge_queue) + 1
    /\ merge_queue'[Len(merge_queue')].task_id = mw.req.task_id
    /\ UNCHANGED <<tasks, notifications>>

\* the task is marked merged; what follows is the check of the phase
merged_outcome ==
    /\ mw.pc = "mark" /\ mw'.pc = "phase"
    /\ writes_status("merged") /\ publishes("merge_success")
    /\ UNCHANGED merge_queue

\* a step of the invocation that is not its outcome: the integration has
\* failed and is to be retried, the PR is integrated, or the phase has been
\* checked after the task was marked merged
no_outcome ==
    /\ \/ mw.pc = "pipeline" /\ mw'.pc = "backoff"
          /\ mw.req.retry_count < MaxRetries
       \/ mw.pc = "pipeline" /\ mw'.pc = "mark"
       \/ mw.pc = "phase" /\ mw'.pc = "idle"
    /\ UNCHANGED <<tasks, merge_queue, notifications>>

----------------------------------------------------------------------------
(* agent_client.py: after a conflict or a failed gate *)

\* the worker of task t has handled the event of its conflict or failed
\* gate: it has the fixing commit, and has pushed it
fix_pushed(t) ==
    \E i \in 1 .. Len(notifications) :
        /\ notifications[i].task_id = t
        /\ notifications[i].event_type \in {"conflict_detected", "tests_failed"}
        /\ notifications[i].handled = "pushed"

\* there is a merge request for t, queued or in the pipeline
merge_requested(t) ==
    \/ \E k \in 1 .. Len(merge_queue) : merge_queue[k].task_id = t
    \/ mw.pc # "idle" /\ mw.req.task_id = t

\* C31: after the pipeline has put a task in conflict or test_failed and
\* its worker has the fix and has pushed it, the worker has a new merge
\* request enqueued for the task, and the task leaves conflict or
\* test_failed.
FixResubmitted ==
    \A t \in TaskIds :
        (fix_pushed(t) /\ tasks[t].status \in {"conflict", "test_failed"})
            ~> (merge_requested(t)
                   \/ tasks[t].status \notin {"conflict", "test_failed"})

----------------------------------------------------------------------------
(* merge_coordinator.py: the order of the merge queue *)

\* a request is added at the tail of the queue in this step
queue_grows ==
    /\ Len(merge_queue') = Len(merge_queue) + 1
    /\ SubSeq(merge_queue', 1, Len(merge_queue)) = merge_queue

\* the worker takes the oldest request, the head of the queue, and begins
\* its pipeline
takes_oldest ==
    /\ mw.pc = "idle" /\ mw'.pc = "pipeline"
    /\ merge_queue # <<>>
    /\ mw'.req.task_id = Head(merge_queue).task_id
    /\ mw'.req.pushes = Head(merge_queue).pushes
    /\ merge_queue' = Tail(merge_queue)

\* the tasks that become merged in this step
become_merged ==
    {t \in DOMAIN tasks :
        tasks[t].status # "merged" /\ tasks'[t].status = "merged"}

\* C32: the merge worker always takes the oldest request of the queue,
\* which changes only by a request added at its tail or taken from its
\* head, so that of two requests enqueued one after the other the first
\* has its pipeline before the first pipeline of the second; one pipeline
\* runs at a time, and no two tasks become merged in the same step.
FifoMerges ==
    [][/\ merge_queue' # merge_queue => queue_grows \/ takes_oldest
       /\ (mw'.pc = "pipeline" /\ mw' # mw) => takes_oldest
       /\ Cardinality(become_merged) <= 1
       /\ become_merged # {} => mw.pc = "mark" /\ become_merged = {mw.req.task_id}
      ]_vars

\* the worker has taken the older of two requests, marked its task merged,
\* and the newer one waits in the queue
FifoMergesWitness ==
    /\ mw.pc = "phase"
    /\ merge_queue # <<>>
    /\ tasks[mw.req.task_id].status = "merged"

----------------------------------------------------------------------------
(* The task a worker held, taken back *)

\* a step of one of the paths that take a held task back
reclaim_step ==
    \/ \E p \in Procs : unregister_agent(p)
    \/ dead_agent_cleanup_service
    \/ recover_stuck_tasks

\* the task t, held by a worker, is taken back in this step
reclaimed(t) ==
    /\ reclaim_step
    /\ tasks[t].status = "in_progress"
    /\ tasks'[t].status # "in_progress"

\* C33: the sweeper, unregister and recovery leave the task they take back
\* pending, assigned to nobody and without started_at; recovery takes back
\* the in_progress tasks whose worker has no heartbeat younger than
\* agent_timeout and leaves those of the live workers as they are.
ReclaimedClean ==
    [][\A t \in TaskIds :
          /\ reclaimed(t) =>
                 /\ tasks'[t].status = "pending"
                 /\ tasks'[t].assigned_to = NoAgent
                 /\ ~tasks'[t].started_at
          /\ (recover_stuck_tasks /\ tasks[t].status = "in_progress") =>
                 IF tasks[t].assigned_to \in active_agents
                 THEN tasks'[t] = tasks[t]
                 ELSE tasks'[t].status = "pending"]_vars

----------------------------------------------------------------------------
(* agent_client.py: the gating step of the worker *)

\* the execution e comes to the gating step, where a required check exits
\* non-zero or runs over its timeout
gate_fails(e) ==
    /\ e.remote # "missing" /\ e.implemented /\ e.run_tests
    /\ \E i \in 1 .. Len(e.checks) :
          e.checks[i].required /\ e.checks[i].outcome # "passed"

\* what the worker reports after such an execution
GateFailed == {execute_task(e) : e \in {x \in Executions : gate_fails(x)}}

\* C34: when a required check of the gating step exits non-zero or times
\* out, the worker reports success = false: the task becomes failed and no
\* merge request is enqueued for it.
GateFailureReported ==
    [][\A p \in Procs : \A res \in GateFailed :
          complete_request(p, res) =>
              /\ ~res[1]
              /\ tasks'[client[p].held].status = "failed"
              /\ merge_queue' = merge_queue]_vars

----------------------------------------------------------------------------
(* Heartbeats of a live worker *)

\* the worker process of agent a runs: it has registered and was not
\* interrupted
alive(a) ==
    \E p \in Procs : client[p].agent_id = a /\ client[p].state # "off"

\* C35: a worker that is alive sends its heartbeats in every state of its
\* loop, also while it executes a task, so that the sweeper never removes
\* a live worker and never resets the task it works on.
LiveWorkerKept ==
    [][dead_agent_cleanup_service =>
          \A a \in DOMAIN agents :
              alive(a) =>
                  /\ a \in DOMAIN agents'
                  /\ agents[a].current_task # NoTask =>
                         tasks'[agents[a].current_task] =
                             tasks[agents[a].current_task]]_vars

----------------------------------------------------------------------------
(* A dependency that is no task of the backlog *)

\* C36: a dependency id that is no task of the backlog counts as absent,
\* for the phases and for the claims alike: the coordinator starts, the
\* task is layered by its known dependencies, and once these are merged
\* the task is handed out; it does not stay pending for ever.
UnknownDependencyIgnored ==
    /\ [](startup.state = "started"
            /\ startup.phases = calculate_phases(Backlog, Dependencies))
    /\ (tasks["A"].status = "merged") ~> (tasks["B"].status # "pending")

----------------------------------------------------------------------------
(* The registry and the task records *)

\* no handler is between two of its writes
quiescent == (\A p \in Procs : Idle(p)) /\ mw.pc = "idle"

\* C37: whenever no handler is in the middle of its writes, a registered
\* worker has current_task = T exactly when T is in_progress and assigned
\* to it; a worker with status idle has no in_progress task.
RegistryMatchesTasks ==
    quiescent =>
        \A a \in DOMAIN agents :
            /\ \A t \in DOMAIN tasks :
                  agents[a].current_task = t
                      <=> (tasks[t].status = "in_progress"
                              /\ tasks[t].assigned_to = a)
            /\ agents[a].status = "idle" => agents[a].current_task = NoTask

----------------------------------------------------------------------------
(* Who deletes a lock *)

\* the lock keys deleted in this step
locks_deleted == DOMAIN task_lock \ DOMAIN task_lock'

\* C38: the lock of a task is deleted only for the worker whose id is its
\* value: /task/complete and /agent/unregister delete no lock held by a
\* worker other than the one that sent them, and the sweeper deletes no
\* lock held by a worker other than the dead one it removes.
LockDeletedByOwner ==
    [][\A t \in locks_deleted :
          /\ \A p \in Procs :
                (complete_task(p) \/ unregister_agent(p))
                    => task_lock[t] = client[p].agent_id
          /\ dead_agent_cleanup_service => task_lock[t] \in DeadAgents]_vars

----------------------------------------------------------------------------
(* A start that is refused *)

\* C39: when the backlog has a dependency cycle, a fresh start fails and
\* leaves Redis as it was: no task record, no phases list and no current
\* phase are written.
RefusedStartWritesNothing ==
    [][(initialize_orchestrator /\ startup'.state = "refused")
          => UNCHANGED <<tasks, phases, current_phase>>]_vars

----------------------------------------------------------------------------
(* After a restart *)

\* the first phase is the current one, its tasks are all merged, and a
\* task of a later phase is pending with its dependencies merged
first_phase_done ==
    /\ current_phase.id = 1
    /\ \A t \in SeqToSet(PhaseTasks[1]) : tasks[t].status = "merged"
    /\ tasks["B"].status = "pending"
    /\ \A d \in SeqToSet(Dependencies["B"]) : tasks[d].status = "merged"

\* C40: when the first phase is the current one, as after a restart, with
\* all its tasks merged and a task of a later phase pending with its
\* dependencies merged, a claim eventually hands out a task of a later
\* phase: the coordinator does not answer no_tasks_available for ever.
RestartResumes ==
    first_phase_done ~> (tasks["B"].status = "in_progress")

====
